---- MODULE Spec2Model ----
(***************************************************************************)
(* A model of mqtt-smarthome: the Subscription Set (subscriptions.rs), the *)
(* Watcher (watcher.rs) and the facade, event loop and reconnect replay    *)
(* task of lib.rs.                                                         *)
(*                                                                         *)
(* Strings are sequences of one-character strings, so that splitting on    *)
(* "/" and looking at the first character are computed, not assumed.       *)
(***************************************************************************)
EXTENDS Integers, Sequences, FiniteSets, TLC

(***************************************************************************)
(* Bounds of the model.                                                    *)
(***************************************************************************)
\* Longest concrete topic (in segments) that covering is decided over.
MaxTopicDepth == 3
\* Calls of Subscriptions::add in the Subscription Set specification.
MaxAdds == 4
\* Events the event loop polls.
MaxEvents == 2
\* Connection-acknowledged events among them (one replay task each).
MaxConnAcks == 1
\* Facade calls of subscribe, publish and disconnect started, over all callers.
MaxCalls == 3
\* Watchers registered.
MaxWatchers == 2
\* Capacity of a watcher's channel: channel(25) in subscribe_channel, scaled
\* down so that a full buffer is reached.
ChannelCapacity == 1

\* Option::None; Some(v) is <<v>>.
None == <<>>

Some(v) == <<v>>

(***************************************************************************)
(* Strings.                                                                *)
(***************************************************************************)
RECURSIVE Split(_)
\* str::split('/'): the segments between the separators; never empty.
Split(s) ==
    IF \A i \in 1..Len(s) : s[i] # "/"
    THEN <<s>>
    ELSE LET i == CHOOSE k \in 1..Len(s) :
                      s[k] = "/" /\ \A j \in 1..(k - 1) : s[j] # "/"
         IN <<SubSeq(s, 1, i - 1)>> \o Split(SubSeq(s, i + 1, Len(s)))

RECURSIVE Join(_)
\* The segments joined by "/" (how the model writes down a topic).
Join(segs) ==
    IF Len(segs) = 1 THEN segs[1]
    ELSE segs[1] \o <<"/">> \o Join(Tail(segs))

\* str::contains(char)
Contains(s, c) == \E i \in 1..Len(s) : s[i] = c

(***************************************************************************)
(* rumqttc::matches(topic, filter), as called by Subscriptions::add and    *)
(* Watcher::is_match.  The loop over the filter's segments:                *)
(*   "#"                      -> true                                      *)
(*   topic exhausted          -> false                                     *)
(*   topic segment is "#"     -> false                                     *)
(*   "+"                      -> next segment                              *)
(*   literal differs          -> false                                     *)
(* and after the loop the topic must be exhausted too.  A topic whose      *)
(* first character is "$" matches nothing.                                 *)
(***************************************************************************)
RECURSIVE MatchSegments(_, _)
MatchSegments(ts, fs) ==
    IF fs = <<>> THEN ts = <<>>
    ELSE IF Head(fs) = <<"#">> THEN TRUE
    ELSE IF ts = <<>> THEN FALSE
    ELSE IF Head(ts) = <<"#">> THEN FALSE
    ELSE IF Head(fs) = <<"+">> THEN MatchSegments(Tail(ts), Tail(fs))
    ELSE IF Head(fs) # Head(ts) THEN FALSE
    ELSE MatchSegments(Tail(ts), Tail(fs))

matches(topic, filter) ==
    IF topic # <<>> /\ topic[1] = "$"
    THEN FALSE
    ELSE MatchSegments(Split(topic), Split(filter))

(***************************************************************************)
(* rumqttc::valid_filter(filter), asserted by Watcher::new: not empty; the *)
(* last segment holds "#" or "+" only when it is that single character;    *)
(* no other segment holds "#", and "+" only as the whole segment.          *)
(***************************************************************************)
valid_filter(filter) ==
    /\ filter # <<>>
    /\ LET segs == Split(filter)
           last == segs[Len(segs)]
       IN /\ ~(Len(last) # 1 /\ (Contains(last, "#") \/ Contains(last, "+")))
          /\ \A i \in 1..(Len(segs) - 1) :
                /\ ~Contains(segs[i], "#")
                /\ ~(Len(segs[i]) > 1 /\ Contains(segs[i], "+"))

(***************************************************************************)
(* Subscriptions::add(filter) on the set S: the pair <<set after, value    *)
(* returned>>.  HashSet::insert returns whether the value was new.         *)
(***************************************************************************)
\* already_subscribed, were the arguments of matches the other way round.
already_subscribed_Swapped(S, filter) ==
    \E existing \in S : matches(existing, filter)

already_subscribed(S, filter) == \E existing \in S : matches(filter, existing)

Retain(S, filter) == {existing \in S : ~matches(existing, filter)}

SubscriptionsAdd(S, filter) ==
    IF already_subscribed(S, filter)
    THEN <<S, FALSE>>
    ELSE <<Retain(S, filter) \cup {filter}, filter \notin Retain(S, filter)>>

(***************************************************************************)
(* String::from_utf8(bytes).is_ok(): the bytes are well-formed UTF-8.  The *)
(* String holds the same bytes.                                            *)
(***************************************************************************)
IsCont(b) == b >= 128 /\ b <= 191

RECURSIVE from_utf8_ok(_)
from_utf8_ok(bytes) ==
    IF bytes = <<>> THEN TRUE
    ELSE LET b == bytes[1]
             n == Len(bytes)
         IN IF b < 128 THEN from_utf8_ok(Tail(bytes))
            ELSE IF b >= 194 /\ b <= 223
            THEN /\ n >= 2
                 /\ IsCont(bytes[2])
                 /\ from_utf8_ok(SubSeq(bytes, 3, n))
            ELSE IF b >= 224 /\ b <= 239
            THEN /\ n >= 3
                 /\ IsCont(bytes[2])
                 /\ IsCont(bytes[3])
                 /\ (b = 224 => bytes[2] >= 160)
                 /\ (b = 237 => bytes[2] <= 159)
                 /\ from_utf8_ok(SubSeq(bytes, 4, n))
            ELSE IF b >= 240 /\ b <= 244
            THEN /\ n >= 4
                 /\ IsCont(bytes[2])
                 /\ IsCont(bytes[3])
                 /\ IsCont(bytes[4])
                 /\ (b = 240 => bytes[2] >= 144)
                 /\ (b = 244 => bytes[2] <= 143)
                 /\ from_utf8_ok(SubSeq(bytes, 5, n))
            ELSE FALSE

(***************************************************************************)
(* Watcher (watcher.rs) and its channel.                                   *)
(***************************************************************************)
\* is_match, were the retained flag not looked at.
is_match_IgnoreRetained(watcher, topic, retained) ==
    matches(topic, watcher.filter)

\* Watcher::is_match(topic, retained)
is_match(watcher, topic, retained) ==
    IF retained /\ ~watcher.allow_retained
    THEN FALSE
    ELSE matches(topic, watcher.filter)

\* The watcher record Watcher::new builds (its sender is the channel at the
\* watcher's index in `channels`).
NewWatcher(filter, allow_retained) ==
    [filter |-> filter, allow_retained |-> allow_retained]

\* channel(capacity): empty, the receiver still held by the creating call.
NewChannel == [buf |-> <<>>, rx |-> "held"]

\* try_send, were a full buffer reported like a closed channel.
try_send_FullIsClosed(ch, msg) ==
    IF ch.rx = "dropped" \/ Len(ch.buf) >= ChannelCapacity THEN <<ch, "Closed">>
    ELSE <<[ch EXCEPT !.buf = Append(@, msg)], "Ok">>

\* Sender::try_send(msg) on channel ch: <<channel after, outcome>>.  A closed
\* channel answers Closed whether or not it is full.
try_send(ch, msg) ==
    IF ch.rx = "dropped" THEN <<ch, "Closed">>
    ELSE IF Len(ch.buf) >= ChannelCapacity THEN <<ch, "Full">>
    ELSE <<[ch EXCEPT !.buf = Append(@, msg)], "Ok">>

\* The for_each over the matching watchers, from watcher i on, in Vec order:
\* what the channels become, which watchers a send was attempted on, which of
\* them were full, and whether a closed channel made the task panic (the
\* watchers after it are then not reached).
RECURSIVE FanOut(_, _, _, _, _)
FanOut(ws, chs, msg, i, acc) ==
    IF i > Len(ws) THEN [acc EXCEPT !.channels = chs]
    ELSE IF ~is_match(ws[i], msg.topic, msg.retain)
    THEN FanOut(ws, chs, msg, i + 1, acc)
    ELSE LET r == try_send(chs[i], <<msg.topic, msg.payload>>)
             tried == [acc EXCEPT !.attempts = @ \cup {i}]
         IN IF r[2] = "Closed"
            THEN [tried EXCEPT !.channels = chs, !.panicked = TRUE]
            ELSE FanOut(ws, [chs EXCEPT ![i] = r[1]], msg, i + 1,
                        IF r[2] = "Full"
                        THEN [tried EXCEPT !.full = @ \cup {i}]
                        ELSE tried)

(***************************************************************************)
(* Inputs.                                                                 *)
(***************************************************************************)
\* Filters given to Subscriptions::add in the Subscription Set specification.
SubsFilters ==
    { <<"a">>, <<"a", "/", "b">>, <<"a", "/", "c">>, <<"a", "/", "+">>,
      <<"a", "/", "#">>, <<"+", "/", "b">>, <<"+", "/", "#">>, <<"#">>,
      <<"$", "/", "b">>, <<"$", "/", "#">> }

\* Filters given to the facade; the last one is not a valid filter.
FacadeFilters ==
    { <<"a", "/", "b">>, <<"a", "/", "+">>, <<"c">>, <<"#", "/", "a">> }

\* Filters watch channels are opened with; the last one is not a valid filter.
WatchFilters == { <<"a", "/", "+">>, <<"#", "/", "a">> }

\* Topics of inbound and published messages.
TopicInputs == { <<"a", "/", "b">>, <<"c">> }

\* Payload bytes of inbound messages: "1", and 0xFF, which is no UTF-8.
PayloadInputs == { <<49>>, <<255>> }

\* Payloads of a facade publish: "2" and "3".
PublishPayloads == { <<50>>, <<51>> }

\* The segments concrete topics are made of; "x" occurs in no filter.
TopicSegments == { <<"a">>, <<"b">>, <<"c">>, <<"x">>, <<"$">> }

\* Every concrete topic of at most MaxTopicDepth segments.
ConcreteTopics ==
    { Join(segs) : segs \in UNION { [1..n -> TopicSegments] : n \in 1..MaxTopicDepth } }

\* base_topic of MqttSmarthome::new
BaseTopic == <<"h">>

(***************************************************************************)
(* State.                                                                  *)
(***************************************************************************)
VARIABLES
    subscribed,          \* Subscriptions.0: the HashSet of filters
    watchers,            \* Vec<Watcher>
    channels,            \* channels[i]: the channel of watchers[i]
    history,             \* HashMap topic -> HistoryEntry (None: no entry)
    last_received,       \* Option<SystemTime>
    options,             \* last_will_topic, last_will_retain and the LastWill
    el,                  \* the task running handle_eventloop
    polled,              \* events polled so far; SystemTime::now() is read as this
    disconnecting,       \* a disconnect request is with the event loop
    replays,             \* the tasks spawned on ConnAck
    callers,             \* the tasks calling the facade
    calls,               \* facade calls started
    brokerSubs,          \* filters a client.subscribe was issued for
    addCall,             \* the last direct call of Subscriptions::add
    nAdds,               \* direct calls of Subscriptions::add
    added                \* the filters they were given

vars ==
    <<subscribed, watchers, channels, history, last_received, options, el,
      polled, disconnecting, replays, callers, calls,
      brokerSubs, addCall, nAdds, added>>

\* The tasks that call the facade concurrently.
Callers == {"c1", "c2"}

\* No direct call of Subscriptions::add yet.
NoAddCall == [before |-> {}, filter |-> <<>>, is_new |-> FALSE]

\* StatementEnd, were the guard bound to a variable of the function.
StatementEnd_GuardBound(guards) == guards

\* The lock guards a task still holds once the statement that took them is
\* over: every guard is a temporary of its statement
\* (`self.subscribed.write().await.add(filter)`), dropped at its end.
StatementEnd(guards) == {}

IdleCaller ==
    [pc |-> "idle", op |-> "none", filter |-> None, is_new |-> None,
     issued |-> 0, chan |-> 0, msg |-> None, guards |-> {}]

\* A caller whose call panicked: its task is gone.
Panicked == [IdleCaller EXCEPT !.pc = "panicked"]

\* The event loop between events: no message in hand, nothing sent.
ElPoll ==
    [pc |-> "poll", msg |-> None, seen |-> 0, attempts |-> {}, full |-> {},
     guards |-> {}]

\* MqttSmarthome::new / new_options with last_will_retain = retain.
NewOptions(retain) ==
    [last_will_topic |-> BaseTopic \o <<"/">> \o
                         <<"c", "o", "n", "n", "e", "c", "t", "e", "d">>,
     last_will_retain |-> retain,
     last_will |-> [topic |-> BaseTopic \o <<"/">> \o
                              <<"c", "o", "n", "n", "e", "c", "t", "e", "d">>,
                    payload |-> <<48>>,
                    retain |-> retain]]

Init ==
    /\ subscribed = {}
    /\ watchers = <<>>
    /\ channels = <<>>
    /\ history = [t \in TopicInputs |-> None]
    /\ last_received = None
    /\ \E retain \in BOOLEAN : options = NewOptions(retain)
    /\ el = ElPoll
    /\ polled = 0
    /\ disconnecting = FALSE
    /\ replays = <<>>
    /\ callers = [c \in Callers |-> IdleCaller]
    /\ calls = 0
    /\ brokerSubs = {}
    /\ addCall = NoAddCall
    /\ nAdds = 0
    /\ added = {}

(***************************************************************************)
(* The broker client (rumqttc AsyncClient), as the facade uses it: a       *)
(* request fails once the EventLoop is dropped, which is when the task     *)
(* running handle_eventloop has left its loop or panicked; subscribe also  *)
(* refuses a filter that is not valid.  The callers `expect` success.      *)
(***************************************************************************)
\* SystemTime::now(): time passes with every event polled.
Now == polled

EventLoopAlive == el.pc \notin {"stopped", "panicked"}

ClientSubscribeOk(filter) == EventLoopAlive /\ valid_filter(filter)

ClientPublishOk == EventLoopAlive

(***************************************************************************)
(* Subscription Set on its own: Subscriptions::add called directly, as the *)
(* tests of subscriptions.rs do.                                           *)
(***************************************************************************)
Add(filter) ==
    /\ nAdds < MaxAdds
    /\ LET r == SubscriptionsAdd(subscribed, filter)
       IN /\ subscribed' = r[1]
          /\ addCall' = [before |-> subscribed, filter |-> filter, is_new |-> r[2]]
    /\ nAdds' = nAdds + 1
    /\ added' = added \cup {filter}
    /\ UNCHANGED <<watchers, channels, history, last_received, options, el,
                   polled, disconnecting, replays, callers, calls,
                   brokerSubs>>

SubsNext == \E filter \in SubsFilters : Add(filter)

SubsSpec == Init /\ [][SubsNext]_vars

(***************************************************************************)
(* Facade (MqttSmarthome).  A call is one step per store access or broker  *)
(* request: the awaits between them let other tasks run.                   *)
(***************************************************************************)
\* AfterAdd, were the broker request made whatever add returned.
AfterAdd_AlwaysSend(is_new) == "subscribe_send"

\* What subscribe does after Subscriptions::add returned is_new: the broker
\* request, or nothing more.
AfterAdd(is_new) == IF is_new THEN "subscribe_send" ELSE "return"

\* subscribe(filter): self.subscribed.write().await.add(filter)
Subscribe(c, filter) ==
    /\ callers[c].pc = "idle"
    /\ calls < MaxCalls
    /\ calls' = calls + 1
    /\ LET r == SubscriptionsAdd(subscribed, filter)
       IN /\ subscribed' = r[1]
          /\ callers' = [callers EXCEPT ![c] =
                [IdleCaller EXCEPT !.op = "subscribe", !.filter = filter,
                                   !.is_new = Some(r[2]),
                                   !.pc = AfterAdd(r[2]),
                                   !.guards = StatementEnd({"subscribed"})]]
    /\ UNCHANGED <<watchers, channels, history, last_received, options, el,
                   polled, disconnecting, replays, brokerSubs, addCall,
                   nAdds, added>>

\* The receiver of the call's channel: returned to the application when the
\* call returns, dropped when the call panics.
Receiver(chs, c, state) ==
    IF callers[c].op = "subscribe_channel"
    THEN [chs EXCEPT ![callers[c].chan].rx = state,
                     ![callers[c].chan].buf = IF state = "dropped" THEN <<>> ELSE @]
    ELSE chs

\* subscribe: self.client.subscribe(filter, QoS::AtLeastOnce).await.expect(..)
SubscribeSend(c) ==
    /\ callers[c].pc = "subscribe_send"
    /\ IF ClientSubscribeOk(callers[c].filter)
       THEN /\ brokerSubs' = brokerSubs \cup {callers[c].filter}
            /\ callers' = [callers EXCEPT ![c].pc = "return", ![c].issued = @ + 1]
            /\ UNCHANGED channels
       ELSE /\ callers' = [callers EXCEPT ![c] = Panicked]
            /\ channels' = Receiver(channels, c, "dropped")
            /\ UNCHANGED brokerSubs
    /\ UNCHANGED <<subscribed, watchers, history, last_received, options, el,
                   polled, disconnecting, replays, calls, addCall, nAdds, added>>

\* AfterPush, were subscribe_channel to return the receiver without subscribing.
AfterPush_NoSubscribe == "return"

\* What subscribe_channel does after the push: self.subscribe(filter).await
AfterPush == "channel_subscribe"

\* subscribe_channel(filter, allow_retained): channel(..), Watcher::new (which
\* asserts valid_filter) and self.watchers.write().await.push(watcher)
SubscribeChannel(c, filter, allow_retained) ==
    /\ callers[c].pc = "idle"
    /\ IF ~valid_filter(filter)
       THEN /\ callers' = [callers EXCEPT ![c] = Panicked]
            /\ UNCHANGED <<watchers, channels>>
       ELSE /\ Len(watchers) < MaxWatchers
            /\ watchers' = Append(watchers, NewWatcher(filter, allow_retained))
            /\ channels' = Append(channels, NewChannel)
            /\ callers' = [callers EXCEPT ![c] =
                  [IdleCaller EXCEPT !.op = "subscribe_channel",
                                     !.filter = filter,
                                     !.chan = Len(watchers) + 1,
                                     !.pc = AfterPush,
                                     !.guards = StatementEnd({"watchers"})]]
    /\ UNCHANGED <<subscribed, history, last_received, options, el,
                   polled, disconnecting, replays, calls, brokerSubs,
                   addCall, nAdds, added>>

\* subscribe_channel: self.subscribe(filter).await, up to its add
ChannelSubscribe(c) ==
    /\ callers[c].pc = "channel_subscribe"
    /\ LET r == SubscriptionsAdd(subscribed, callers[c].filter)
       IN /\ subscribed' = r[1]
          /\ callers' = [callers EXCEPT
                            ![c].is_new = Some(r[2]),
                            ![c].pc = AfterAdd(r[2]),
                            ![c].guards = StatementEnd({"subscribed"})]
    /\ UNCHANGED <<watchers, channels, history, last_received, options, el,
                   polled, disconnecting, replays, calls, brokerSubs,
                   addCall, nAdds, added>>

\* publish(topic, payload, retain): self.client.publish(..).await.expect(..)
Publish(c, topic, payload, retain) ==
    /\ callers[c].pc = "idle"
    /\ calls < MaxCalls
    /\ calls' = calls + 1
    /\ callers' = [callers EXCEPT ![c] =
          IF ClientPublishOk
          THEN [IdleCaller EXCEPT !.op = "publish", !.pc = "publish_history",
                   !.issued = 1,
                   !.msg = [topic |-> topic, payload |-> payload, retain |-> retain]]
          ELSE Panicked]
    /\ UNCHANGED <<subscribed, watchers, channels, history, last_received,
                   options, el, polled, disconnecting,
                   replays, brokerSubs, addCall, nAdds, added>>

\* HistoryEntry::new(time, payload)
HistoryEntry(time, payload) == [time |-> time, payload |-> payload]

\* insert, were an entry the topic already has kept.
insert_KeepExisting(map, topic, entry) ==
    IF map[topic] # None THEN map ELSE [map EXCEPT ![topic] = Some(entry)]

\* insert, were the entries of the other topics lost with the write.
insert_LoseOthers(map, topic, entry) ==
    [t \in DOMAIN map |-> IF t = topic THEN Some(entry) ELSE None]

\* HashMap::insert(topic, entry): the topic's entry is replaced.
insert(map, topic, entry) == [map EXCEPT ![topic] = Some(entry)]

\* last(topic): self.history.read().await.get(topic).cloned()
last(topic) == history[topic]

\* publish: SystemTime::now() and self.history.write().await.insert(..)
PublishHistory(c) ==
    /\ callers[c].pc = "publish_history"
    /\ history' = insert(history, callers[c].msg.topic,
                          HistoryEntry(Now, callers[c].msg.payload))
    /\ callers' = [callers EXCEPT ![c].pc = "return",
                                  ![c].guards = StatementEnd({"history"})]
    /\ UNCHANGED <<subscribed, watchers, channels, last_received, options,
                   el, polled, disconnecting, replays, calls,
                   brokerSubs, addCall, nAdds, added>>

\* disconnect(): self.client.disconnect().await; an Err is returned, not
\* unwrapped.
Disconnect(c) ==
    /\ callers[c].pc = "idle"
    /\ calls < MaxCalls
    /\ calls' = calls + 1
    /\ callers' = [callers EXCEPT ![c] =
          [IdleCaller EXCEPT !.op = "disconnect", !.pc = "return"]]
    /\ disconnecting' = (disconnecting \/ EventLoopAlive)
    /\ UNCHANGED <<subscribed, watchers, channels, history, last_received,
                   options, el, polled, replays, brokerSubs,
                   addCall, nAdds, added>>

\* The call returns to its caller; subscribe_channel hands over the receiver.
Return(c) ==
    /\ callers[c].pc = "return"
    /\ callers' = [callers EXCEPT ![c] = IdleCaller]
    /\ channels' = Receiver(channels, c, "open")
    /\ UNCHANGED <<subscribed, watchers, history, last_received, options, el,
                   polled, disconnecting, replays, calls, brokerSubs,
                   addCall, nAdds, added>>

(***************************************************************************)
(* The application's end of a watch channel.                               *)
(***************************************************************************)
\* Receiver::recv() taking the oldest message
Recv(i) ==
    /\ i \in 1..Len(channels)
    /\ channels[i].rx = "open"
    /\ channels[i].buf # <<>>
    /\ channels' = [channels EXCEPT ![i].buf = Tail(@)]
    /\ UNCHANGED <<subscribed, watchers, history, last_received, options,
                   el, polled, disconnecting, replays,
                   callers, calls, brokerSubs, addCall, nAdds, added>>

\* The Receiver is dropped: the channel is closed.
DropReceiver(i) ==
    /\ i \in 1..Len(channels)
    /\ channels[i].rx = "open"
    /\ channels' = [channels EXCEPT ![i].rx = "dropped", ![i].buf = <<>>]
    /\ UNCHANGED <<subscribed, watchers, history, last_received, options,
                   el, polled, disconnecting, replays,
                   callers, calls, brokerSubs, addCall, nAdds, added>>

(***************************************************************************)
(* handle_eventloop: one step per polled event; an accepted message takes  *)
(* two more, the history insert and the fan-out, each under its own lock.  *)
(***************************************************************************)
CanPoll == el.pc = "poll" /\ polled < MaxEvents

\* eventloop.poll() returned: time passes with every event.
Polled == polled' = polled + 1

\* The task task::spawn starts on ConnAck, before it has run.
SpawnedReplay(session_present) ==
    [pc |-> "spawned", session_present |-> session_present, snapshot |-> {},
     todo |-> {}, issued |-> {}, published |-> <<>>, guards |-> {}]

\* Ok(Event::Incoming(Packet::ConnAck(packet)))
EvConnAck(session_present) ==
    /\ CanPoll
    /\ Len(replays) < MaxConnAcks
    /\ Polled
    /\ replays' = Append(replays, SpawnedReplay(session_present))
    /\ UNCHANGED <<subscribed, watchers, channels, history, last_received,
                   options, el, disconnecting, callers, calls,
                   brokerSubs, addCall, nAdds, added>>

\* The Publish packet in hand, with the time read for it.
InboundMessage(topic, bytes, retain, dup) ==
    [topic |-> topic, payload |-> bytes, retain |-> retain, dup |-> dup,
     time |-> Now]

\* Accepted, were the arm's guard on publish.dup missing.
Accepted_IgnoreDup(dup, bytes) == from_utf8_ok(bytes)

\* The guard and the decoding of the Publish arm: the message is handled
\* when it is no duplicate and its payload is UTF-8.
Accepted(dup, bytes) == ~dup /\ from_utf8_ok(bytes)

\* Ok(Event::Incoming(Incoming::Publish(publish))): SystemTime::now(),
\* String::from_utf8 and *last_received.write().await = Some(time)
EvPublish(topic, bytes, retain, dup) ==
    /\ CanPoll
    /\ Polled
    /\ IF Accepted(dup, bytes)
       THEN /\ last_received' = Some(Now)
            /\ el' = [ElPoll EXCEPT
                         !.pc = "history",
                         !.msg = InboundMessage(topic, bytes, retain, dup),
                         !.guards = StatementEnd({"last_received"})]
       ELSE /\ el' = [ElPoll EXCEPT
                         !.pc = "discarded",
                         !.msg = InboundMessage(topic, bytes, retain, dup)]
            /\ UNCHANGED last_received
    /\ UNCHANGED <<subscribed, watchers, channels, history, options,
                   disconnecting, replays, callers, calls, brokerSubs,
                   addCall, nAdds, added>>

\* smarthome.history.write().await.insert(topic, HistoryEntry::new(..))
EvHistory ==
    /\ el.pc = "history"
    /\ history' = insert(history, el.msg.topic,
                          HistoryEntry(el.msg.time, el.msg.payload))
    /\ el' = [el EXCEPT !.pc = "fanout",
                        !.guards = StatementEnd({"history"})]
    /\ UNCHANGED <<subscribed, watchers, channels, last_received, options,
                   polled, disconnecting, replays, callers,
                   calls, brokerSubs, addCall, nAdds, added>>

\* smarthome.watchers.read().await.iter().filter_map(..).for_each(..)
EvFanOut ==
    /\ el.pc = "fanout"
    /\ LET r == FanOut(watchers, channels, el.msg, 1,
                       [channels |-> channels, attempts |-> {}, full |-> {},
                        panicked |-> FALSE])
       IN /\ channels' = r.channels
          /\ el' = [pc |-> IF r.panicked THEN "panicked" ELSE "dispatched",
                    msg |-> el.msg, seen |-> Len(watchers),
                    attempts |-> r.attempts, full |-> r.full,
                    guards |-> StatementEnd({"watchers"})]
    /\ UNCHANGED <<subscribed, watchers, history, last_received, options,
                   polled, disconnecting, replays, callers, calls,
                   brokerSubs, addCall, nAdds, added>>

\* The arm is done (the message dispatched, or discarded as a duplicate or
\* as no UTF-8): the loop polls again.
EvLoop ==
    /\ el.pc \in {"dispatched", "discarded"}
    /\ el' = ElPoll
    /\ UNCHANGED <<subscribed, watchers, channels, history, last_received,
                   options, polled, disconnecting, replays, callers, calls,
                   brokerSubs, addCall, nAdds, added>>

\* Ok(Event::Outgoing(Outgoing::Disconnect)): break
EvDisconnect ==
    /\ CanPoll
    /\ disconnecting
    /\ Polled
    /\ el' = [ElPoll EXCEPT !.pc = "stopped"]
    /\ UNCHANGED <<subscribed, watchers, channels, history, last_received,
                   options, disconnecting, replays, callers, calls,
                   brokerSubs, addCall, nAdds, added>>

\* EvOther, were the stores cleared when the connection fails.
EvOther_Cleanup ==
    /\ CanPoll
    /\ Polled
    /\ subscribed' = {}
    /\ watchers' = <<>>
    /\ channels' = <<>>
    /\ UNCHANGED <<history, last_received, options, el, disconnecting,
                   replays, callers, calls, brokerSubs, addCall, nAdds,
                   added>>

\* Ok(_) => {} for any other event, and Err(err): sleep a second, poll again
EvOther ==
    /\ CanPoll
    /\ Polled
    /\ UNCHANGED <<subscribed, watchers, channels, history, last_received,
                   options, el, disconnecting, replays, callers,
                   calls, brokerSubs, addCall, nAdds, added>>

(***************************************************************************)
(* The task spawned on ConnAck.                                            *)
(***************************************************************************)
\* ReplayPc, were the for loop skipped.
ReplayPc_SkipLoop(todo) == "publish"

\* What the task goes on to once `todo` is what is left of the for loop.
ReplayPc(todo) == IF todo = {} THEN "publish" ELSE "subscribing"

\* ReplayTopics, were a resumed session not replayed.
ReplayTopics_NewSessionOnly(session_present, snapshot) ==
    IF session_present THEN {} ELSE snapshot

\* The filters the for loop goes over: the whole snapshot; the ConnAck
\* packet's session_present is printed and not looked at.
ReplayTopics(session_present, snapshot) == snapshot

\* let topics = smarthome.subscribed.read().await.0.clone()
ReplaySnapshot(r) ==
    /\ r \in 1..Len(replays)
    /\ replays[r].pc = "spawned"
    /\ LET topics == ReplayTopics(replays[r].session_present, subscribed)
       IN replays' = [replays EXCEPT
                         ![r].snapshot = subscribed,
                         ![r].todo = topics,
                         ![r].pc = ReplayPc(topics),
                         ![r].guards = StatementEnd({"subscribed"})]
    /\ UNCHANGED <<subscribed, watchers, channels, history, last_received,
                   options, el, polled, disconnecting,
                   callers, calls, brokerSubs, addCall, nAdds, added>>

\* for topic in topics { client.subscribe(topic, ..).await.expect(..) }: the
\* HashSet is iterated in no particular order.
ReplaySubscribe(r) ==
    /\ r \in 1..Len(replays)
    /\ replays[r].pc = "subscribing"
    /\ \E topic \in replays[r].todo :
          IF ClientSubscribeOk(topic)
          THEN /\ replays' = [replays EXCEPT
                                 ![r].todo = @ \ {topic},
                                 ![r].issued = @ \cup {topic},
                                 ![r].pc = ReplayPc(replays[r].todo \ {topic})]
               /\ brokerSubs' = brokerSubs \cup {topic}
          ELSE /\ replays' = [replays EXCEPT ![r].pc = "panicked"]
               /\ UNCHANGED brokerSubs
    /\ UNCHANGED <<subscribed, watchers, channels, history, last_received,
                   options, el, polled, disconnecting,
                   callers, calls, addCall, nAdds, added>>

\* ConnectedMessage, were the last will's payload published.
ConnectedMessage_Offline ==
    [topic |-> options.last_will_topic, payload |-> <<48>>,
     retain |-> options.last_will_retain]

\* The liveness marker the task publishes.
ConnectedMessage ==
    [topic |-> options.last_will_topic, payload |-> <<50>>,
     retain |-> options.last_will_retain]

\* client.publish(&last_will_topic, QoS::AtLeastOnce, last_will_retain, "2")
ReplayPublish(r) ==
    /\ r \in 1..Len(replays)
    /\ replays[r].pc = "publish"
    /\ replays' = IF ClientPublishOk
                  THEN [replays EXCEPT ![r].published = Append(@, ConnectedMessage),
                                       ![r].pc = "done"]
                  ELSE [replays EXCEPT ![r].pc = "panicked"]
    /\ UNCHANGED <<subscribed, watchers, channels, history, last_received,
                   options, el, polled, disconnecting,
                   callers, calls, brokerSubs, addCall, nAdds, added>>

ReplayStep(r) == ReplaySnapshot(r) \/ ReplaySubscribe(r) \/ ReplayPublish(r)

(***************************************************************************)
(* The system.                                                             *)
(***************************************************************************)
Next ==
    \/ \E c \in Callers, filter \in FacadeFilters : Subscribe(c, filter)
    \/ \E c \in Callers : SubscribeSend(c)
    \/ \E c \in Callers, filter \in WatchFilters, allow_retained \in BOOLEAN :
          SubscribeChannel(c, filter, allow_retained)
    \/ \E c \in Callers : ChannelSubscribe(c)
    \/ \E c \in Callers, topic \in TopicInputs, payload \in PublishPayloads,
          retain \in BOOLEAN : Publish(c, topic, payload, retain)
    \/ \E c \in Callers : PublishHistory(c)
    \/ \E c \in Callers : Disconnect(c)
    \/ \E c \in Callers : Return(c)
    \/ \E i \in 1..MaxWatchers : Recv(i)
    \/ \E i \in 1..MaxWatchers : DropReceiver(i)
    \/ \E session_present \in BOOLEAN : EvConnAck(session_present)
    \/ \E topic \in TopicInputs, bytes \in PayloadInputs, retain \in BOOLEAN,
          dup \in BOOLEAN : EvPublish(topic, bytes, retain, dup)
    \/ EvHistory
    \/ EvFanOut
    \/ EvLoop
    \/ EvDisconnect
    \/ EvOther
    \/ \E r \in 1..MaxConnAcks : ReplayStep(r)

Spec == Init /\ [][Next]_vars

(***************************************************************************)
(* The system with part of its environment quiet: the facade's subscribe   *)
(* paths and disconnect; the router with watch channels and publishes; the *)
(* reconnect replay with concurrent subscribes and disconnect.             *)
(***************************************************************************)
FacadeNext ==
    \/ \E c \in Callers, filter \in FacadeFilters : Subscribe(c, filter)
    \/ \E c \in Callers : SubscribeSend(c)
    \/ \E c \in Callers : Disconnect(c)
    \/ \E c \in Callers : Return(c)
    \/ EvDisconnect

FacadeSpec == Init /\ [][FacadeNext]_vars

RouterNext ==
    \/ \E filter \in WatchFilters, allow_retained \in BOOLEAN :
          SubscribeChannel("c1", filter, allow_retained)
    \/ ChannelSubscribe("c1")
    \/ SubscribeSend("c1")
    \/ Return("c1")
    \/ \E i \in 1..MaxWatchers : Recv(i)
    \/ \E i \in 1..MaxWatchers : DropReceiver(i)
    \/ \E topic \in TopicInputs, bytes \in PayloadInputs, retain \in BOOLEAN,
          dup \in BOOLEAN : EvPublish(topic, bytes, retain, dup)
    \/ EvHistory
    \/ EvFanOut
    \/ EvLoop
    \/ EvOther

RouterSpec == Init /\ [][RouterNext]_vars

\* The History Store: concurrent publishes and inbound messages, none of them
\* retained (the retain flag plays no part in the history).
HistoryNext ==
    \/ \E c \in Callers, topic \in TopicInputs, payload \in PublishPayloads :
          Publish(c, topic, payload, FALSE)
    \/ \E c \in Callers : PublishHistory(c)
    \/ \E c \in Callers : Return(c)
    \/ \E topic \in TopicInputs, bytes \in PayloadInputs, dup \in BOOLEAN :
          EvPublish(topic, bytes, FALSE, dup)
    \/ EvHistory
    \/ EvFanOut
    \/ EvLoop

HistorySpec == Init /\ [][HistoryNext]_vars

ReplayNext ==
    \/ \E filter \in FacadeFilters : Subscribe("c1", filter)
    \/ SubscribeSend("c1")
    \/ Disconnect("c1")
    \/ Return("c1")
    \/ \E session_present \in BOOLEAN : EvConnAck(session_present)
    \/ EvDisconnect
    \/ EvOther
    \/ \E r \in 1..MaxConnAcks : ReplayStep(r)

\* The connection's life: watch channels, publishes and disconnect from one
\* caller; ConnAck, Disconnect and error events; the replay task.
LifecycleNext ==
    \/ \E filter \in WatchFilters : SubscribeChannel("c1", filter, TRUE)
    \/ ChannelSubscribe("c1")
    \/ SubscribeSend("c1")
    \/ \E topic \in TopicInputs : Publish("c1", topic, <<50>>, FALSE)
    \/ PublishHistory("c1")
    \/ Disconnect("c1")
    \/ Return("c1")
    \/ EvConnAck(FALSE)
    \/ EvDisconnect
    \/ EvOther
    \/ \E r \in 1..MaxConnAcks : ReplayStep(r)

LifecycleSpec == Init /\ [][LifecycleNext]_vars

\* The runtime runs every spawned task that can take a step.
ReplaySpec ==
    /\ Init
    /\ [][ReplayNext]_vars
    /\ \A r \in 1..MaxConnAcks : WF_vars(ReplayStep(r))

(***************************************************************************)
(* Covering: filter A covers filter B when every concrete topic that       *)
(* matches B also matches A.                                               *)
(***************************************************************************)
AllFilters == SubsFilters \cup FacadeFilters \cup WatchFilters

CoversTable ==
    [A \in AllFilters, B \in AllFilters |->
        \A t \in ConcreteTopics : matches(t, B) => matches(t, A)]

Covers(A, B) == CoversTable[A, B]

\* f is equal to a member of S or covered by one.
CoveredBy(S, f) == \E m \in S : m = f \/ Covers(m, f)

(***************************************************************************)
(* Subscription Set (SubsSpec).                                            *)
(***************************************************************************)
\* C1: after any sequence of Subscriptions::add calls the set holds no two
\* distinct filters of which one covers the other.
C1_NoCoveringPair ==
    \A A \in subscribed : \A B \in subscribed : A # B => ~Covers(A, B)

\* C2: add(f) of a filter equal to or covered by a member of the set returns
\* false and leaves the set as it was.
C2_CoveredAddIsNoOp ==
    (nAdds > 0 /\ CoveredBy(addCall.before, addCall.filter))
        => (~addCall.is_new /\ subscribed = addCall.before)

\* C3: add(f) of a filter no member covers returns true, and the set becomes
\* the set without the members f covers, with f.
C3_UncoveredAddReplaces ==
    (nAdds > 0 /\ ~CoveredBy(addCall.before, addCall.filter))
        => /\ addCall.is_new
           /\ subscribed =
                 {m \in addCall.before : ~Covers(addCall.filter, m)}
                     \cup {addCall.filter}

ShouldReceive(i, msg) ==
    /\ matches(msg.topic, watchers[i].filter)
    /\ watchers[i].allow_retained \/ ~msg.retain

\* No queued message has a topic its watcher's filter does not match.
OnlyMatchingQueued ==
    \A i \in 1..Len(watchers) : \A n \in 1..Len(channels[i].buf) :
        matches(channels[i].buf[n][1], watchers[i].filter)

\* C5 as stated: for every accepted message the router attempts a send on
\* exactly the watchers that are to get it.
C5_SendIffMatch ==
    /\ el.pc \in {"dispatched", "panicked"} =>
          el.attempts = {i \in 1..el.seen : ShouldReceive(i, el.msg)}
    /\ OnlyMatchingQueued

\* C5 amended: exactly the watchers that are to get it, as far as the first
\* of them whose receiver is dropped; the router panics there and the
\* watchers after it are not attempted.
C5_SendIffMatchUntilClosed ==
    /\ el.pc = "dispatched" =>
          el.attempts = {i \in 1..el.seen : ShouldReceive(i, el.msg)}
    /\ el.pc = "panicked" =>
          \E k \in 1..el.seen :
              /\ ShouldReceive(k, el.msg)
              /\ channels[k].rx = "dropped"
              /\ el.attempts = {i \in 1..k : ShouldReceive(i, el.msg)}
    /\ OnlyMatchingQueued

\* A retained message dispatched: a watcher that does not allow retained
\* messages was passed over though its filter matches, another was sent to.
C5_Witness ==
    /\ el.pc = "dispatched"
    /\ el.msg.retain
    /\ \E i \in 1..el.seen : \E j \in 1..el.seen :
          /\ matches(el.msg.topic, watchers[i].filter)
          /\ ~watchers[i].allow_retained
          /\ i \notin el.attempts
          /\ j \in el.attempts
          /\ channels[j].buf # <<>>

\* The watchers the message in hand is to go to, those of them whose buffer
\* is full, and those whose receiver is dropped.
Matching == {i \in 1..Len(watchers) : ShouldReceive(i, el.msg)}

FullOnes ==
    {i \in Matching : channels[i].rx # "dropped"
                        /\ Len(channels[i].buf) >= ChannelCapacity}

ClosedOnes == {i \in Matching : channels[i].rx = "dropped"}

\* The step that fans the message in hand out, with a full watcher among
\* those it is to go to.
FanOutWithFull == el.pc = "fanout" /\ el'.pc # "fanout" /\ FullOnes # {}

HistoryHasMessage ==
    history[el.msg.topic] =
        Some([time |-> el.msg.time, payload |-> el.msg.payload])

\* C6 as stated: a full watcher loses the message and nothing else happens:
\* the history has the message, the full watcher's queue is as it was, every
\* other watcher it is to go to has it queued, and the loop goes on.
C6_FullDropsForThatWatcherOnly ==
    [][FanOutWithFull =>
          /\ HistoryHasMessage /\ history' = history
          /\ \A i \in FullOnes : channels'[i] = channels[i]
          /\ \A j \in Matching \ (FullOnes \cup ClosedOnes) :
                channels'[j].buf =
                    Append(channels[j].buf, <<el.msg.topic, el.msg.payload>>)
          /\ el'.pc = "dispatched"]_vars

\* C6 amended: the same, but the other watchers have the message queued only
\* as far as the first whose receiver is dropped, and the loop goes on only
\* when there is none.
C6_FullDropsUnlessClosed ==
    [][FanOutWithFull =>
          /\ HistoryHasMessage /\ history' = history
          /\ \A i \in FullOnes : channels'[i] = channels[i]
          /\ \A j \in Matching \ (FullOnes \cup ClosedOnes) :
                (\A k \in ClosedOnes : j < k) =>
                    channels'[j].buf =
                        Append(channels[j].buf, <<el.msg.topic, el.msg.payload>>)
          /\ ClosedOnes = {} <=> el'.pc = "dispatched"
          /\ ClosedOnes # {} <=> el'.pc = "panicked"]_vars

\* A message dispatched with one watcher full and another sent to.
C6_Witness ==
    /\ el.pc = "dispatched"
    /\ el.full # {}
    /\ \E j \in el.attempts \ el.full :
          channels[j].buf # <<>>
          /\ channels[j].buf[Len(channels[j].buf)] = <<el.msg.topic, el.msg.payload>>
    /\ \A i \in el.full : Len(channels[i].buf) = ChannelCapacity

\* C7: a Publish event that is a duplicate delivery or whose payload is no
\* UTF-8 is discarded, and discarding it changes neither the history, nor
\* last_received, nor any watcher's channel.
C7_DiscardedHasNoEffect ==
    /\ [](el.pc \in {"history", "fanout", "dispatched", "discarded"} =>
             (el.pc = "discarded" <=>
                 (el.msg.dup \/ ~from_utf8_ok(el.msg.payload))))
    /\ [][(el.pc = "poll" /\ el'.pc = "discarded") =>
             UNCHANGED <<history, last_received, channels>>]_vars

\* A duplicate delivery discarded while the history, last_received and a
\* channel hold an earlier message.
C7_Witness ==
    /\ el.pc = "discarded"
    /\ el.msg.dup
    /\ from_utf8_ok(el.msg.payload)
    /\ last_received # None
    /\ history[el.msg.topic] # None
    /\ \E i \in 1..Len(channels) : channels[i].buf # <<>>

(***************************************************************************)
(* Reconnect replay (ReplaySpec).                                          *)
(***************************************************************************)
\* The task of the r-th ConnAck has been spawned.
Spawned(r) == r <= Len(replays)

\* The task's for loop is over without a failed request.
Replayed(r) == replays[r].pc \in {"publish", "done"}

\* C8: after a ConnAck without a resumed session the task issues, as long as
\* no request fails, a broker subscribe for every filter of the snapshot it
\* read, and never one for a filter outside it.
C8_ReplayIssuesSnapshot ==
    /\ [](\A r \in 1..Len(replays) :
             replays[r].issued \subseteq replays[r].snapshot)
    /\ \A r \in 1..MaxConnAcks :
          (Spawned(r) /\ ~replays[r].session_present)
              ~> (Spawned(r) /\ \/ replays[r].pc = "panicked"
                                \/ /\ Replayed(r)
                                   /\ replays[r].issued = replays[r].snapshot)

\* A task of a ConnAck without a resumed session is done, having issued the
\* subscribes of a snapshot of two filters.
C8_Witness ==
    \E r \in 1..Len(replays) :
        /\ ~replays[r].session_present
        /\ replays[r].pc = "done"
        /\ Cardinality(replays[r].snapshot) >= 2
        /\ replays[r].issued = replays[r].snapshot

\* C9 as stated: the task of a ConnAck with a resumed session issues no
\* broker subscribe.
C9_NoReplayWhenResumed ==
    \A r \in 1..Len(replays) :
        replays[r].session_present => replays[r].issued = {}

\* C9 amended: the set is replayed on every ConnAck: also the task of a
\* ConnAck with a resumed session has, once its loop is over, issued a broker
\* subscribe for every filter of its snapshot and for no other.
C9_ReplayAlsoWhenResumed ==
    \A r \in 1..Len(replays) :
        replays[r].session_present =>
            /\ replays[r].issued \subseteq replays[r].snapshot
            /\ Replayed(r) => replays[r].issued = replays[r].snapshot

\* A task of a ConnAck with a resumed session is done and has issued a
\* subscribe.
C9_Witness ==
    \E r \in 1..Len(replays) :
        /\ replays[r].session_present
        /\ replays[r].pc = "done"
        /\ replays[r].snapshot # {}
        /\ replays[r].issued = replays[r].snapshot

\* The publish that announces the connection: "2" to <base_topic>/connected
\* with the retain flag given to `new`.
OnlineMarker ==
    [topic |-> BaseTopic \o <<"/", "c", "o", "n", "n", "e", "c", "t", "e", "d">>,
     payload |-> <<50>>,
     retain |-> options.last_will_retain]

\* C10: every ConnAck, with or without a resumed session, leads, as long as
\* no request fails, to exactly one publish of "2" to the status topic with
\* the last will's retain flag; the last will's "0" is never published.
C10_ConnectedPublishedOnce ==
    /\ [](\A r \in 1..Len(replays) :
             /\ Len(replays[r].published) <= 1
             /\ \A n \in 1..Len(replays[r].published) :
                   /\ replays[r].published[n] = OnlineMarker
                   /\ replays[r].published[n].payload # options.last_will.payload
                   /\ replays[r].published[n].topic = options.last_will.topic
                   /\ replays[r].published[n].retain = options.last_will.retain
             /\ replays[r].pc = "done" => Len(replays[r].published) = 1)
    /\ \A r \in 1..MaxConnAcks :
          Spawned(r)
              ~> (Spawned(r) /\ \/ replays[r].pc = "panicked"
                                \/ /\ replays[r].pc = "done"
                                   /\ replays[r].published = <<OnlineMarker>>)

\* A task of a ConnAck with a resumed session is done and has published the
\* marker, retained.
C10_Witness ==
    \E r \in 1..Len(replays) :
        /\ replays[r].session_present
        /\ replays[r].pc = "done"
        /\ replays[r].published = <<OnlineMarker>>
        /\ OnlineMarker.retain

(***************************************************************************)
(* Registration of a filter that is not valid.                             *)
(***************************************************************************)
\* The call of caller c fails at once and registers nothing.
RejectedAtCallSite(c) ==
    /\ callers'[c].pc = "panicked"
    /\ UNCHANGED <<subscribed, watchers, channels, brokerSubs>>

\* C11: subscribe and subscribe_channel, called with a filter that is not
\* valid, fail at the call and leave the Subscription Set and the watchers as
\* they were, with no broker subscribe issued; no such filter is ever in the
\* Subscription Set or among the filters subscribed at the broker.
C11_InvalidFilterRejected ==
    /\ [][\A c \in Callers : \A filter \in FacadeFilters \cup WatchFilters :
             (/\ ~valid_filter(filter)
              /\ \/ Subscribe(c, filter)
                 \/ \E allow_retained \in BOOLEAN :
                       SubscribeChannel(c, filter, allow_retained))
                 => RejectedAtCallSite(c)]_vars
    /\ [](\A filter \in subscribed \cup brokerSubs : valid_filter(filter))

(***************************************************************************)
(* subscribe_channel (RouterSpec).                                         *)
(***************************************************************************)
\* Caller c is inside a call of subscribe_channel before the step or after it.
InSubscribeChannel(c) ==
    callers[c].op = "subscribe_channel" \/ callers'[c].op = "subscribe_channel"

\* C12 as stated: a call of subscribe_channel appends one watcher and neither
\* changes the Subscription Set nor issues a broker subscribe.
C12_ChannelDoesNotSubscribe ==
    [][\A c \in Callers :
          InSubscribeChannel(c) =>
              /\ UNCHANGED <<subscribed, brokerSubs>>
              /\ (callers[c].pc = "idle" =>
                     /\ Len(watchers') = Len(watchers) + 1
                     /\ watchers'[Len(watchers')].filter = callers'[c].filter)]_vars

\* C12 amended: the call appends one watcher and then subscribes as
\* subscribe(filter) does: it adds the filter to the Subscription Set and
\* issues a broker subscribe for it exactly when the add returned true; only
\* then the receiver is returned.
C12_ChannelAlsoSubscribes ==
    /\ [][\A c \in Callers :
             /\ (callers[c].pc = "idle" /\ callers'[c].op = "subscribe_channel") =>
                   /\ watchers' = Append(watchers,
                         [filter |-> callers'[c].filter,
                          allow_retained |-> watchers'[Len(watchers')].allow_retained])
                   /\ callers'[c].pc = "channel_subscribe"
                   /\ UNCHANGED <<subscribed, brokerSubs>>
             /\ (callers[c].pc = "channel_subscribe" /\ callers'[c] # callers[c]) =>
                   /\ subscribed' = SubscriptionsAdd(subscribed, callers[c].filter)[1]
                   /\ callers'[c].is_new =
                         Some(SubscriptionsAdd(subscribed, callers[c].filter)[2])
                   /\ UNCHANGED <<watchers, brokerSubs>>
             /\ (callers[c].op = "subscribe_channel"
                    /\ callers[c].pc = "subscribe_send"
                    /\ callers'[c].pc = "return") =>
                   /\ brokerSubs' = brokerSubs \cup {callers[c].filter}
                   /\ UNCHANGED <<subscribed, watchers>>]_vars
    /\ [](\A c \in Callers :
             (callers[c].op = "subscribe_channel" /\ callers[c].pc = "return") =>
                 /\ callers[c].is_new # None
                 /\ callers[c].issued = 1 <=> callers[c].is_new = Some(TRUE)
                 /\ channels[callers[c].chan].rx = "held")

\* A call of subscribe_channel about to return its receiver: its watcher is
\* registered, its filter is in the Subscription Set and subscribed at the
\* broker.
C12_Witness ==
    \E c \in Callers :
        /\ callers[c].op = "subscribe_channel"
        /\ callers[c].pc = "return"
        /\ callers[c].issued = 1
        /\ watchers[callers[c].chan].filter = callers[c].filter
        /\ callers[c].filter \in subscribed
        /\ callers[c].filter \in brokerSubs

(***************************************************************************)
(* History Store (HistorySpec).                                            *)
(***************************************************************************)
\* The step in which publish, called by c, writes the history.
PublishWrites(c) ==
    callers[c].pc = "publish_history" /\ callers'[c].pc = "return"

\* The step in which the event loop writes the history for the message in hand.
InboundWrites == el.pc = "history" /\ el'.pc = "fanout"

\* After the step, last(topic) is an entry with this payload, and the entry
\* of every other topic is the one it was.
WrittenLast(topic, payload) ==
    /\ last(topic)' # None
    /\ last(topic)'[1].payload = payload
    /\ \A t \in TopicInputs \ {topic} : last(t)' = last(t)

\* C13: the history holds at most one entry per topic, and last(topic) is
\* the payload of the latest write for the topic: a publish writes its payload
\* before it returns, an accepted inbound message writes its payload, each
\* replacing the topic's entry, and nothing else changes the history.
C13_LastWriteWins ==
    /\ [](\A t \in TopicInputs : Len(last(t)) <= 1)
    /\ [][/\ \A c \in Callers :
                PublishWrites(c) =>
                    WrittenLast(callers[c].msg.topic, callers[c].msg.payload)
          /\ InboundWrites => WrittenLast(el.msg.topic, el.msg.payload)
          /\ (~InboundWrites /\ \A c \in Callers : ~PublishWrites(c)) =>
                history' = history
          /\ \A c \in Callers :
                (callers[c].op = "publish" /\ callers'[c].pc = "idle") =>
                    callers[c].pc = "return"]_vars

\* A publish to a topic has written and is about to return, and the entry of
\* the topic is that of an inbound message written after it.
C13_Witness ==
    \E c \in Callers :
        /\ callers[c].op = "publish"
        /\ callers[c].pc = "return"
        /\ el.pc = "fanout"
        /\ el.msg.topic = callers[c].msg.topic
        /\ last(el.msg.topic) = Some(HistoryEntry(el.msg.time, el.msg.payload))
        /\ el.msg.payload # callers[c].msg.payload

(***************************************************************************)
(* A closed watch channel (RouterSpec).                                    *)
(***************************************************************************)
\* C14: a message that is to go to a watcher whose receiver is dropped is
\* never passed over: the event loop panics; and from then on everything has
\* halted: no event is polled and no facade call changes the Subscription
\* Set, the watchers, the history or the filters subscribed at the broker.
C14_ClosedSinkHaltsSystem ==
    [][/\ (el.pc = "fanout" /\ el'.pc # "fanout" /\ ClosedOnes # {}) =>
              el'.pc = "panicked"
       /\ el.pc = "panicked" =>
              UNCHANGED <<el, polled, subscribed, watchers, history,
                          last_received, brokerSubs>>]_vars

\* Caller c has published and written the history, and is about to return.
Published(c) == callers[c].op = "publish" /\ callers[c].pc = "return"

\* The history has caller c's publish: the entry of its topic holds its
\* payload, unless an inbound message on that very topic has replaced it.
HistoryHasPublish(c) ==
    /\ Len(last(callers[c].msg.topic)) = 1
    /\ \/ last(callers[c].msg.topic)[1].payload = callers[c].msg.payload
       \/ last(callers[c].msg.topic)[1].payload \notin PublishPayloads

\* C15: concurrent publishes to distinct topics, one by each caller and no
\* other, however interleaved with one another and with inbound messages, each
\* leave the entry of their topic: none is lost, and last returns every one of
\* them.
C15_ConcurrentPublishesAllKept ==
    \A c \in Callers : \A d \in Callers :
        (/\ c # d
         /\ calls = Cardinality(Callers)
         /\ Published(c)
         /\ Published(d)
         /\ callers[c].msg.topic # callers[d].msg.topic)
            => HistoryHasPublish(c) /\ HistoryHasPublish(d)

\* Two publishes to distinct topics about to return, an inbound message
\* accepted meanwhile: the history holds both payloads.
C15_Witness ==
    /\ calls = Cardinality(Callers)
    /\ Published("c1")
    /\ Published("c2")
    /\ callers["c1"].msg.topic # callers["c2"].msg.topic
    /\ last(callers["c1"].msg.topic) =
          Some(HistoryEntry(last(callers["c1"].msg.topic)[1].time,
                            callers["c1"].msg.payload))
    /\ last(callers["c2"].msg.topic)[1].payload = callers["c2"].msg.payload
    /\ last_received # None
    /\ Cardinality({t \in TopicInputs : last(t) # None}) = Cardinality(Callers)

(***************************************************************************)
(* The Subscription Set as a function of the filters added (SubsSpec).     *)
(***************************************************************************)
RECURSIVE AddAll(_, _)
\* The set after Subscriptions::add has been called with each filter of the
\* sequence in turn, starting from the set S.
AddAll(S, filters) ==
    IF filters = <<>> THEN S
    ELSE AddAll(SubscriptionsAdd(S, Head(filters))[1], Tail(filters))

RECURSIVE InSomeOrder(_)
\* The filters of a set in one fixed order.
InSomeOrder(F) ==
    IF F = {} THEN <<>>
    ELSE LET f == CHOOSE x \in F : TRUE
         IN <<f>> \o InSomeOrder(F \ {f})

\* The filters of F that no other filter of F covers.
NotCoveredIn(F) == {f \in F : ~\E g \in F : g # f /\ Covers(g, f)}

\* The set is the same in whatever order the filters were added: it is the
\* set that adding them once each in one fixed order gives.
SameInEveryOrder == subscribed = AddAll({}, InSomeOrder(added))

\* C16: the set after adding a collection of filters is the same in every
\* order of adding them, and is the filters of the collection that no other
\* filter of the collection covers.
C16_OrderIndependent ==
    nAdds > 0 =>
        /\ SameInEveryOrder
        /\ subscribed = NotCoveredIn(added)

\* C19: consolidation never loses coverage: every filter Subscriptions::add
\* was ever given is in the set or covered by a filter of the set, so that
\* every topic a requested filter matches is matched by a filter of the set,
\* which is what the replay subscribes to.
C19_CoverageNeverLost ==
    \A f \in added : \E m \in subscribed : m = f \/ Covers(m, f)

\* A filter that was added is no longer in the set: a filter that covers it
\* is, and there is a topic that both match.
C19_Witness ==
    \E f \in added \ subscribed : \E m \in subscribed :
        /\ Covers(m, f)
        /\ ~Covers(f, m)
        /\ \E t \in ConcreteTopics : matches(t, f) /\ matches(t, m)

(***************************************************************************)
(* Disconnect and connection errors (LifecycleSpec).                       *)
(***************************************************************************)
\* The event loop handles Outgoing::Disconnect: it leaves its loop.
DisconnectEvent == el.pc = "poll" /\ el'.pc = "stopped"

\* The event loop handles a connection error (or any event it has no arm
\* for): it polls again.
ErrorEvent ==
    /\ el.pc = "poll" /\ el'.pc = "poll"
    /\ polled' = polled + 1
    /\ replays' = replays

\* The task of ConnAck r reads its snapshot in this step.
TakesSnapshot(r) ==
    /\ r \in 1..Len(replays)
    /\ replays[r].pc = "spawned"
    /\ replays'[r].pc # "spawned"

\* C17: a Disconnect event and a connection error clean nothing up: the
\* Subscription Set, the watchers with their channels and the history are
\* after the event what they were before it; and the filters a later ConnAck
\* replays are the Subscription Set as it is then.
C17_NoCleanupOnDisconnect ==
    [][/\ (DisconnectEvent \/ ErrorEvent) =>
              UNCHANGED <<subscribed, watchers, channels, history>>
       /\ \A r \in 1..MaxConnAcks :
              TakesSnapshot(r) => replays'[r].snapshot = subscribed]_vars

\* The event loop has left its loop on a Disconnect event, and the
\* Subscription Set, the watchers and the history still hold what was
\* registered and published before.
C17_Witness ==
    /\ el.pc = "stopped"
    /\ polled >= 2
    /\ subscribed # {}
    /\ watchers # <<>>
    /\ \E t \in TopicInputs : last(t) # None

(***************************************************************************)
(* Locks and broker requests (LifecycleSpec).                              *)
(***************************************************************************)
\* Caller c is at a broker request: subscribe is about to call
\* client.subscribe, or the caller is where publish calls client.publish.
CallerAtBrokerRequest(c) == callers[c].pc \in {"subscribe_send", "idle"}

\* The task of ConnAck r is at a broker request: in its for loop of
\* client.subscribe calls, or at its client.publish.
ReplayAtBrokerRequest(r) == replays[r].pc \in {"subscribing", "publish"}

C20_ReturnedImpliesIssued ==
    \A c \in Callers :
        (callers[c].op = "subscribe" /\ callers[c].pc = "return") =>
            \E g \in brokerSubs :
                g = callers[c].filter \/ Covers(g, callers[c].filter)

====
